---- MODULE Spec2Model ----
(***************************************************************************)
(* Model of src/main.py: the upload handler loadDocument and its helpers   *)
(* splitDocuments, buildVectorStore, loadPdf, loadJson, loadQuestions and  *)
(* genResponses.                                                           *)
(*                                                                         *)
(* Calls into Flask, LangChain, Chroma and json are modelled by their      *)
(* contract: each either performs its effect or raises, and an exception   *)
(* is never caught by the handler.  The control flow and the data flow of  *)
(* the handler and of the helpers are those of the source, statement by    *)
(* statement.                                                              *)
(*                                                                         *)
(* Three specifications:                                                   *)
(*   Spec          the handler from the arrival of a request on, for       *)
(*                 concurrent requests sharing the local storage;          *)
(*   SpecPipeline  lines 61-72 of the handler (chunk, build, questions,    *)
(*                 answers, render) with the value of `docs` drawn from    *)
(*                 bounded sets;                                           *)
(*   SpecChunk     the chunking policy applied to bounded texts and        *)
(*                 parameters.                                             *)
(***************************************************************************)
EXTENDS Integers, Sequences, FiniteSets, TLC

VARIABLES
    pc,           \* position of each request in loadDocument
    req,          \* the multipart form of each request
    storage,      \* local storage: filename -> file
    flashes,      \* messages flashed for each request
    response,     \* the response of each request
    docs,         \* local `docs` of loadDocument
    loader_docs,  \* local `docs` of loadPdf / loadJson (result of loader.load())
    split_docs,   \* local `split_docs`
    vector_store, \* local `vector_store`
    chroma_db,    \* the collection persisted under ./chroma_db
    qs,           \* local `qs`
    rs,           \* local `rs`: insertion-ordered dict as a sequence of <<key, value>>
    page,         \* what render_template was given
    steps,        \* history: the steps each request has started, in order
    written,      \* history: the filenames each request has saved
    ans,          \* local `ans` of genResponses: the result of the latest search
    asked,        \* history: the questions genResponses has searched for, in order
    last_search,  \* history: question -> the result of the latest search for it
    text,         \* SpecChunk: the document text
    chunk_size,   \* SpecChunk: chunk_size
    chunk_overlap,\* SpecChunk: chunk_overlap
    chunks        \* SpecChunk: the chunks produced

vars == <<pc, req, storage, flashes, response, docs, loader_docs, split_docs,
          vector_store, chroma_db, qs, rs, page, steps, written, ans, asked, last_search,
          text, chunk_size, chunk_overlap, chunks>>

handlerVars == <<pc, req, storage, flashes, response, docs, loader_docs, split_docs,
                 vector_store, chroma_db, qs, rs, page, steps, written, ans, asked,
                 last_search>>

chunkVars == <<text, chunk_size, chunk_overlap, chunks>>

-----------------------------------------------------------------------------
(* Bounds *)

\* the concurrent requests
Requests == {1, 2}

\* the client-supplied filenames
Filenames == {"a.pdf", "b.json"}

\* the values of the form field `type`; Absent: the field is not in the form
Types == {"pdf", "json", "xml", "Absent"}

\* the question strings
Questions == {"q1", "q2"}

\* the most questions in a questions file
MaxQuestions == 2

\* the most documents in `docs` in SpecPipeline
MaxDocs == 1

\* the number of chunks one similarity_search returns (the provider's k)
K == 2

\* SpecChunk: the longest text, the largest chunk_size
MaxLen == 6

MaxChunkSize == 4

\* the characters of a text
Alphabet == {"x", "y"}

-----------------------------------------------------------------------------
(* Values *)

\* Python's None
None == [tag |-> "None"]

\* a Python list
PyList(s) == [tag |-> "list", items |-> s]

\* no file under that name
NoFile == [kind |-> "absent"]

\* the corpus file a request uploads
CorpusFile(r) == [kind |-> "corpus", owner |-> r, body |-> <<"x">>]

\* the questions file a request uploads
QuestionsFile(r, body) == [kind |-> "questions", owner |-> r, body |-> body]

\* a Document: its text and the upload it comes from
Document(t, r) == [page_content |-> t, metadata |-> r]

\* sequences over S of length at most n
RECURSIVE SeqsUpTo(_, _)
SeqsUpTo(S, n) ==
    IF n = 0 THEN {<<>>}
    ELSE LET shorter == SeqsUpTo(S, n - 1)
         IN  shorter \cup {Append(s, x) : s \in {t \in shorter : Len(t) = n - 1}, x \in S}

\* the forms a client can submit
Forms ==
    [hasCorpus : BOOLEAN, hasQuestions : BOOLEAN, type : Types,
     corpusName : Filenames, questionsName : Filenames]

NoForm == [hasCorpus |-> FALSE, hasQuestions |-> FALSE, type |-> "Absent",
           corpusName |-> "a.pdf", questionsName |-> "a.pdf"]

-----------------------------------------------------------------------------
(* The steps of a request that passes validation, in the order of the source *)

StepOrder == <<"save_corpus", "save_questions", "load", "chunk", "build",
               "questions", "answers", "render">>

\* the step a position of the handler belongs to
StepOf(p) ==
    CASE p = "save_corpus" -> "save_corpus"
      [] p = "save_questions" -> "save_questions"
      [] p = "load" -> "load"
      [] p = "split" -> "chunk"
      [] p = "build" -> "build"
      [] p = "questions" -> "questions"
      [] p = "answers" -> "answers"
      [] p = "render" -> "render"

\* the positions at which a library call may raise, a call that has started its step
RaisingPositions ==
    {"save_corpus", "save_questions", "load", "split", "build", "questions", "render"}

\* flash(message)
flash(r, message) == [flashes EXCEPT ![r] = Append(@, message)]

\* return redirect(request.url)
redirect(r) == [response EXCEPT ![r] = "redirect"]

\* variant of save: a name that holds a file keeps it
saveUnlessExists(store, filename, file) ==
    IF store[filename] = NoFile THEN [store EXCEPT ![filename] = file] ELSE store

\* corpus.save(filename) / questions.save(filename): the file replaces what the name held
save(store, filename, file) == [store EXCEPT ![filename] = file]

-----------------------------------------------------------------------------
(* Document Loader *)

\* loader.load(): the Documents of a stored corpus file
loader_load(file) == <<Document(file.body, file.owner)>>

\* the loader can parse the file
Loadable(file) == file.kind = "corpus"

\* loadPdf: loads the Documents into its local `docs` and returns nothing
loadPdf(filename) ==
    LET loaded == loader_load(storage[filename])
    IN  None

\* loadJson: loads the Documents into its local `docs` and returns nothing
loadJson(filename) ==
    LET loaded == loader_load(storage[filename])
    IN  None

-----------------------------------------------------------------------------
(* loadDocument, lines 36-59 *)

\* a POST /api/load_document arrives
Submit(r) ==
    /\ pc[r] = "idle"
    /\ UNCHANGED chunkVars
    /\ \E f \in Forms : req' = [req EXCEPT ![r] = f]
    /\ pc' = [pc EXCEPT ![r] = "check_corpus"]
    /\ UNCHANGED <<storage, flashes, response, docs, loader_docs, split_docs,
                   vector_store, chroma_db, qs, rs, page, steps, written,
                   ans, asked, last_search>>

\* if 'corpus' not in request.files: flash, redirect
CheckCorpus(r) ==
    /\ pc[r] = "check_corpus"
    /\ UNCHANGED chunkVars
    /\ IF ~req[r].hasCorpus
       THEN /\ flashes' = flash(r, "No corpus file found!")
            /\ response' = redirect(r)
            /\ pc' = [pc EXCEPT ![r] = "done"]
       ELSE /\ pc' = [pc EXCEPT ![r] = "check_questions"]
            /\ UNCHANGED <<flashes, response>>
    /\ UNCHANGED <<req, storage, docs, loader_docs, split_docs, vector_store,
                   chroma_db, qs, rs, page, steps, written,
                   ans, asked, last_search>>

\* variant of CheckQuestions: the message is flashed and the handler goes on
CheckQuestionsFallsThrough(r) ==
    /\ pc[r] = "check_questions"
    /\ UNCHANGED chunkVars
    /\ IF ~req[r].hasQuestions
       THEN flashes' = flash(r, "No question file found!")
       ELSE UNCHANGED flashes
    /\ pc' = [pc EXCEPT ![r] = "read_form"]
    /\ UNCHANGED <<req, storage, response, docs, loader_docs, split_docs, vector_store,
                   chroma_db, qs, rs, page, steps, written, ans, asked, last_search>>

\* if 'questions' not in request.files: flash, redirect
CheckQuestions(r) ==
    /\ pc[r] = "check_questions"
    /\ UNCHANGED chunkVars
    /\ IF ~req[r].hasQuestions
       THEN /\ flashes' = flash(r, "No question file found!")
            /\ response' = redirect(r)
            /\ pc' = [pc EXCEPT ![r] = "done"]
       ELSE /\ pc' = [pc EXCEPT ![r] = "read_form"]
            /\ UNCHANGED <<flashes, response>>
    /\ UNCHANGED <<req, storage, docs, loader_docs, split_docs, vector_store,
                   chroma_db, qs, rs, page, steps, written,
                   ans, asked, last_search>>

\* op = request.form['type']: a form without the field is a bad request
ReadForm(r) ==
    /\ pc[r] = "read_form"
    /\ UNCHANGED chunkVars
    /\ IF req[r].type = "Absent"
       THEN /\ response' = [response EXCEPT ![r] = "bad_request"]
            /\ pc' = [pc EXCEPT ![r] = "done"]
       ELSE /\ pc' = [pc EXCEPT ![r] = "save_corpus"]
            /\ UNCHANGED response
    /\ UNCHANGED <<req, storage, flashes, docs, loader_docs, split_docs, vector_store,
                   chroma_db, qs, rs, page, steps, written,
                   ans, asked, last_search>>

\* variant of SaveCorpus: the corpus is loaded before the questions file is saved
SaveCorpusThenLoad(r) ==
    /\ pc[r] = "save_corpus"
    /\ UNCHANGED chunkVars
    /\ storage' = save(storage, req[r].corpusName, CorpusFile(r))
    /\ written' = [written EXCEPT ![r] = @ \cup {req[r].corpusName}]
    /\ steps' = [steps EXCEPT ![r] = Append(@, "save_corpus")]
    /\ pc' = [pc EXCEPT ![r] = "load"]
    /\ UNCHANGED <<req, flashes, response, docs, loader_docs, split_docs, vector_store,
                   chroma_db, qs, rs, page, ans, asked, last_search>>

\* corpus.save(corpus.filename)
SaveCorpus(r) ==
    /\ pc[r] = "save_corpus"
    /\ UNCHANGED chunkVars
    /\ storage' = save(storage, req[r].corpusName, CorpusFile(r))
    /\ written' = [written EXCEPT ![r] = @ \cup {req[r].corpusName}]
    /\ steps' = [steps EXCEPT ![r] = Append(@, "save_corpus")]
    /\ pc' = [pc EXCEPT ![r] = "save_questions"]
    /\ UNCHANGED <<req, flashes, response, docs, loader_docs, split_docs, vector_store,
                   chroma_db, qs, rs, page,
                   ans, asked, last_search>>

\* questions.save(questions.filename)
SaveQuestions(r) ==
    /\ pc[r] = "save_questions"
    /\ UNCHANGED chunkVars
    /\ storage' = save(storage, req[r].questionsName, QuestionsFile(r, <<"q1">>))
    /\ written' = [written EXCEPT ![r] = @ \cup {req[r].questionsName}]
    /\ steps' = [steps EXCEPT ![r] = Append(@, "save_questions")]
    /\ pc' = [pc EXCEPT ![r] = "load"]
    /\ UNCHANGED <<req, flashes, response, docs, loader_docs, split_docs, vector_store,
                   chroma_db, qs, rs, page,
                   ans, asked, last_search>>

\* if op == 'json': docs = loadJson(filename=corpus.filename)
LoadJson(r) ==
    /\ pc[r] = "load"
    /\ UNCHANGED chunkVars
    /\ req[r].type = "json"
    /\ Loadable(storage[req[r].corpusName])
    /\ loader_docs' = [loader_docs EXCEPT ![r] = loader_load(storage[req[r].corpusName])]
    /\ docs' = [docs EXCEPT ![r] = loadJson(req[r].corpusName)]
    /\ steps' = [steps EXCEPT ![r] = Append(@, "load")]
    /\ pc' = [pc EXCEPT ![r] = "split"]
    /\ UNCHANGED <<req, storage, flashes, response, split_docs, vector_store,
                   chroma_db, qs, rs, page, written,
                   ans, asked, last_search>>

\* elif op == 'pdf': docs = loadPdf(filename=corpus.filename)
LoadPdf(r) ==
    /\ pc[r] = "load"
    /\ UNCHANGED chunkVars
    /\ req[r].type = "pdf"
    /\ Loadable(storage[req[r].corpusName])
    /\ loader_docs' = [loader_docs EXCEPT ![r] = loader_load(storage[req[r].corpusName])]
    /\ docs' = [docs EXCEPT ![r] = loadPdf(req[r].corpusName)]
    /\ steps' = [steps EXCEPT ![r] = Append(@, "load")]
    /\ pc' = [pc EXCEPT ![r] = "split"]
    /\ UNCHANGED <<req, storage, flashes, response, split_docs, vector_store,
                   chroma_db, qs, rs, page, written,
                   ans, asked, last_search>>

\* else: flash('Invalid type!'), redirect
InvalidType(r) ==
    /\ pc[r] = "load"
    /\ UNCHANGED chunkVars
    /\ req[r].type \notin {"json", "pdf"}
    /\ flashes' = flash(r, "Invalid type!")
    /\ response' = redirect(r)
    /\ pc' = [pc EXCEPT ![r] = "done"]
    /\ UNCHANGED <<req, storage, docs, loader_docs, split_docs, vector_store,
                   chroma_db, qs, rs, page, steps, written,
                   ans, asked, last_search>>

\* a library call of the pipeline raises: nothing catches it, the request ends
\* with a server error
PipelineError(r) ==
    /\ pc[r] \in RaisingPositions
    /\ UNCHANGED chunkVars
    /\ pc[r] = "load" => req[r].type \in {"json", "pdf"}
    /\ steps' = [steps EXCEPT ![r] = Append(@, StepOf(pc[r]))]
    /\ response' = [response EXCEPT ![r] = "server_error"]
    /\ pc' = [pc EXCEPT ![r] = "done"]
    /\ UNCHANGED <<req, storage, flashes, docs, loader_docs, split_docs, vector_store,
                   chroma_db, qs, rs, page, written,
                   ans, asked, last_search>>

-----------------------------------------------------------------------------
(* Chunker *)

\* chunk_size=1000, chunk_overlap=200 of splitDocuments
ChunkSize == 1000

ChunkOverlap == 200

Min(a, b) == IF a <= b THEN a ELSE b

\* variant of Advance: the next window starts where the window ends
AdvanceWholeWindow(size, overlap) == size

\* the distance between the starts of two consecutive windows
Advance(size, overlap) == size - overlap

\* the windows of length `size` of text t from offset `start` on, each with its
\* start offset; the last one may be shorter
RECURSIVE Windows(_, _, _, _)
Windows(t, size, overlap, start) ==
    LET window == [page_content |-> SubSeq(t, start + 1, Min(start + size, Len(t))),
                   start_index |-> start]
    IN  IF start + size >= Len(t)
        THEN <<window>>
        ELSE <<window>> \o Windows(t, size, overlap, start + Advance(size, overlap))

\* the text splitter on one text
split_text(t, size, overlap) == Windows(t, size, overlap, 0)

\* the chunks of one Document: each keeps the Document's metadata
ChunksOf(d, size, overlap) ==
    LET ws == split_text(d.page_content, size, overlap)
    IN  [i \in 1..Len(ws) |->
            [page_content |-> ws[i].page_content, metadata |-> d.metadata,
             start_index |-> ws[i].start_index]]

\* ts.split_documents(docs): no chunk crosses a Document boundary
RECURSIVE split_documents(_, _, _)
split_documents(ds, size, overlap) ==
    IF ds = <<>> THEN <<>>
    ELSE ChunksOf(Head(ds), size, overlap) \o split_documents(Tail(ds), size, overlap)

\* splitDocuments(docs)
splitDocuments(ds) == split_documents(ds, ChunkSize, ChunkOverlap)

\* split_docs = splitDocuments(docs): a value that is no list of Documents raises
SplitDocs(r) ==
    /\ pc[r] = "split"
    /\ UNCHANGED chunkVars
    /\ steps' = [steps EXCEPT ![r] = Append(@, "chunk")]
    /\ IF docs[r] = None
       THEN /\ response' = [response EXCEPT ![r] = "server_error"]
            /\ pc' = [pc EXCEPT ![r] = "done"]
            /\ UNCHANGED split_docs
       ELSE /\ split_docs' = [split_docs EXCEPT ![r] = splitDocuments(docs[r].items)]
            /\ pc' = [pc EXCEPT ![r] = "build"]
            /\ UNCHANGED response
    /\ UNCHANGED <<req, storage, flashes, docs, loader_docs, vector_store,
                   chroma_db, qs, rs, page, written,
                   ans, asked, last_search>>

-----------------------------------------------------------------------------
(* Vector Index *)

\* persist_directory of buildVectorStore
PersistDirectory == "./chroma_db"

\* Chroma.from_documents: embeds the documents and adds them to the collection
\* persisted under the directory
from_documents(collection, documents) == collection \o documents

\* buildVectorStore(split_docs): the collection under ./chroma_db afterwards
buildVectorStore(documents) == from_documents(chroma_db, documents)

\* the sequences of n distinct positions of a collection of length len
Rankings(len, n) ==
    {p \in [1..n -> 1..len] : \A i, j \in 1..n : i # j => p[i] # p[j]}

\* vs.similarity_search(q): the k closest chunks of the collection, closest first;
\* which chunks are closest is the embedding provider's choice
similarity_search(collection) ==
    LET n == Min(K, Len(collection))
    IN  {[i \in 1..n |-> collection[p[i]]] : p \in Rankings(Len(collection), n)}

\* vector_store = buildVectorStore(split_docs)
BuildVectorStore(r) ==
    /\ pc[r] = "build"
    /\ UNCHANGED chunkVars
    /\ chroma_db' = buildVectorStore(split_docs[r])
    /\ vector_store' = [vector_store EXCEPT ![r] = PersistDirectory]
    /\ steps' = [steps EXCEPT ![r] = Append(@, "build")]
    /\ pc' = [pc EXCEPT ![r] = "questions"]
    /\ UNCHANGED <<req, storage, flashes, response, docs, loader_docs, split_docs,
                   qs, rs, page, written,
                   ans, asked, last_search>>

-----------------------------------------------------------------------------
(* Question Loader *)

\* json.load(qs_file) parses the file
Parsable(file) == file.kind = "questions"

\* loadQuestions(filename)
loadQuestions(filename) == storage[filename].body

\* qs = loadQuestions(filename=questions.filename)
LoadQuestions(r) ==
    /\ pc[r] = "questions"
    /\ UNCHANGED chunkVars
    /\ Parsable(storage[req[r].questionsName])
    /\ qs' = [qs EXCEPT ![r] = loadQuestions(req[r].questionsName)]
    /\ steps' = [steps EXCEPT ![r] = Append(@, "questions")]
    /\ pc' = [pc EXCEPT ![r] = "answers"]
    /\ UNCHANGED <<req, storage, flashes, response, docs, loader_docs, split_docs,
                   vector_store, chroma_db, rs, page, written,
                   ans, asked, last_search>>

-----------------------------------------------------------------------------
(* Answer Generator *)

\* the separator of ' '.join
Space == <<" ">>

\* variant of join: the items in order with nothing between them
RECURSIVE joinNoSeparator(_, _)
joinNoSeparator(sep, items) ==
    IF items = <<>> THEN <<>>
    ELSE items[1] \o joinNoSeparator(sep, Tail(items))

\* sep.join(items): the items in order, sep between two consecutive ones
RECURSIVE join(_, _)
join(sep, items) ==
    IF items = <<>> THEN <<>>
    ELSE IF Len(items) = 1 THEN items[1]
    ELSE items[1] \o sep \o join(sep, Tail(items))

\* the texts of the chunks a search returned
Texts(found) == [i \in 1..Len(found) |-> found[i].page_content]

\* variant of DictSet: an existing key keeps its value
DictSetKeepFirst(d, k, v) ==
    IF \E i \in 1..Len(d) : d[i][1] = k THEN d ELSE Append(d, <<k, v>>)

\* rs[q] = v on an insertion-ordered dict: an existing key keeps its place and
\* takes the new value, a new key goes last
DictSet(d, k, v) ==
    IF \E i \in 1..Len(d) : d[i][1] = k
    THEN [i \in 1..Len(d) |-> IF d[i][1] = k THEN <<k, v>> ELSE d[i]]
    ELSE Append(d, <<k, v>>)

\* no search has been made for the question
NoSearch == <<[tag |-> "None"]>>

\* rs = dict()
GenResponsesCall(r) ==
    /\ pc[r] = "answers"
    /\ UNCHANGED chunkVars
    /\ rs' = [rs EXCEPT ![r] = <<>>]
    /\ steps' = [steps EXCEPT ![r] = Append(@, "answers")]
    /\ pc' = [pc EXCEPT ![r] = "gen_loop"]
    /\ UNCHANGED <<req, storage, flashes, response, docs, loader_docs, split_docs,
                   vector_store, chroma_db, qs, page, written, ans, asked, last_search>>

\* for q in qs: ans = vs.similarity_search(q); rs[q] = ' '.join(ans)
GenResponsesIter(r) ==
    /\ pc[r] = "gen_loop"
    /\ UNCHANGED chunkVars
    /\ Len(asked[r]) < Len(qs[r])
    /\ LET q == qs[r][Len(asked[r]) + 1]
       IN  \E found \in similarity_search(chroma_db) :
              /\ ans' = [ans EXCEPT ![r] = found]
              /\ asked' = [asked EXCEPT ![r] = Append(@, q)]
              /\ last_search' = [last_search EXCEPT ![r][q] = found]
              /\ rs' = [rs EXCEPT ![r] = DictSet(@, q, join(Space, Texts(found)))]
    /\ UNCHANGED <<pc, req, storage, flashes, response, docs, loader_docs, split_docs,
                   vector_store, chroma_db, qs, page, steps, written>>

\* variant of GenResponsesRaise: the exception is caught and the answers found so
\* far are rendered
GenResponsesRaiseCaught(r) ==
    /\ pc[r] = "gen_loop"
    /\ UNCHANGED chunkVars
    /\ Len(asked[r]) < Len(qs[r])
    /\ page' = [page EXCEPT ![r] = PyList([i \in 1..Len(rs[r]) |->
                                              [name |-> rs[r][i][1], value |-> rs[r][i][2]]])]
    /\ response' = [response EXCEPT ![r] = "rendered"]
    /\ pc' = [pc EXCEPT ![r] = "done"]
    /\ UNCHANGED <<req, storage, flashes, docs, loader_docs, split_docs, vector_store,
                   chroma_db, qs, rs, steps, written, ans, asked, last_search>>

\* the search of an iteration raises
GenResponsesRaise(r) ==
    /\ pc[r] = "gen_loop"
    /\ UNCHANGED chunkVars
    /\ Len(asked[r]) < Len(qs[r])
    /\ response' = [response EXCEPT ![r] = "server_error"]
    /\ pc' = [pc EXCEPT ![r] = "done"]
    /\ UNCHANGED <<req, storage, flashes, docs, loader_docs, split_docs, vector_store,
                   chroma_db, qs, rs, page, steps, written, ans, asked, last_search>>

\* return rs
GenResponsesReturn(r) ==
    /\ pc[r] = "gen_loop"
    /\ UNCHANGED chunkVars
    /\ Len(asked[r]) = Len(qs[r])
    /\ pc' = [pc EXCEPT ![r] = "render"]
    /\ UNCHANGED <<req, storage, flashes, response, docs, loader_docs, split_docs,
                   vector_store, chroma_db, qs, rs, page, steps, written, ans, asked,
                   last_search>>

-----------------------------------------------------------------------------
(* Rendering *)

\* json.dump(rs): the members of the JSON object, in the order of the dict
json_dump(d) == [i \in 1..Len(d) |-> [name |-> d[i][1], value |-> d[i][2]]]

\* rs_json = json.dump(rs); return render_template("response.html", rs_json)
Render(r) ==
    /\ pc[r] = "render"
    /\ UNCHANGED chunkVars
    /\ page' = [page EXCEPT ![r] = PyList(json_dump(rs[r]))]
    /\ response' = [response EXCEPT ![r] = "rendered"]
    /\ steps' = [steps EXCEPT ![r] = Append(@, "render")]
    /\ pc' = [pc EXCEPT ![r] = "done"]
    /\ UNCHANGED <<req, storage, flashes, docs, loader_docs, split_docs, vector_store,
                   chroma_db, qs, rs, written,
                   ans, asked, last_search>>

-----------------------------------------------------------------------------
(* Specifications *)

\* the state before any request: empty storage, empty collection
Init ==
    /\ pc = [r \in Requests |-> "idle"]
    /\ req = [r \in Requests |-> NoForm]
    /\ storage = [f \in Filenames |-> NoFile]
    /\ flashes = [r \in Requests |-> <<>>]
    /\ response = [r \in Requests |-> "pending"]
    /\ docs = [r \in Requests |-> None]
    /\ loader_docs = [r \in Requests |-> <<>>]
    /\ split_docs = [r \in Requests |-> <<>>]
    /\ vector_store = [r \in Requests |-> "unset"]
    /\ chroma_db = <<>>
    /\ qs = [r \in Requests |-> <<>>]
    /\ rs = [r \in Requests |-> <<>>]
    /\ page = [r \in Requests |-> None]
    /\ steps = [r \in Requests |-> <<>>]
    /\ written = [r \in Requests |-> {}]
    /\ ans = [r \in Requests |-> <<>>]
    /\ asked = [r \in Requests |-> <<>>]
    /\ last_search = [r \in Requests |-> [q \in Questions |-> NoSearch]]
    /\ text = <<>>
    /\ chunk_size = 1
    /\ chunk_overlap = 0
    /\ chunks = None

\* loadDocument up to the call of splitDocuments
Next ==
    \E r \in Requests :
        \/ Submit(r)
        \/ CheckCorpus(r)
        \/ CheckQuestions(r)
        \/ ReadForm(r)
        \/ SaveCorpus(r)
        \/ SaveQuestions(r)
        \/ LoadJson(r)
        \/ LoadPdf(r)
        \/ InvalidType(r)
        \/ SplitDocs(r)
        \/ PipelineError(r)

Spec == Init /\ [][Next]_vars

\* the texts of the Documents in SpecPipeline
PipelineTexts == SeqsUpTo(Alphabet, 1) \ {<<>>}

\* the values of `docs` in SpecPipeline: None, or a list of Documents of the upload
DocsValues(r) ==
    {None} \cup {PyList(ds) : ds \in SeqsUpTo({Document(t, r) : t \in PipelineTexts}, MaxDocs)}

\* the form of the requests in SpecPipeline
ValidForm == [hasCorpus |-> TRUE, hasQuestions |-> TRUE, type |-> "pdf",
              corpusName |-> "a.pdf", questionsName |-> "b.json"]

\* the response of a request is sent: its locals and its page are released
Respond(r) ==
    /\ pc[r] = "done"
    /\ UNCHANGED chunkVars
    /\ pc' = [pc EXCEPT ![r] = "closed"]
    /\ docs' = [docs EXCEPT ![r] = None]
    /\ split_docs' = [split_docs EXCEPT ![r] = <<>>]
    /\ vector_store' = [vector_store EXCEPT ![r] = "unset"]
    /\ qs' = [qs EXCEPT ![r] = <<>>]
    /\ rs' = [rs EXCEPT ![r] = <<>>]
    /\ page' = [page EXCEPT ![r] = None]
    /\ ans' = [ans EXCEPT ![r] = <<>>]
    /\ asked' = [asked EXCEPT ![r] = <<>>]
    /\ last_search' = [last_search EXCEPT ![r] = [q \in Questions |-> NoSearch]]
    /\ UNCHANGED <<req, storage, flashes, response, loader_docs, chroma_db, steps, written>>

\* uploads are served one at a time: the next one reaches line 61 once the one
\* before it has been answered
NextUpload(r) ==
    /\ pc[r] = "queued"
    /\ UNCHANGED chunkVars
    /\ r > 1
    /\ pc[r - 1] = "closed"
    /\ pc' = [pc EXCEPT ![r] = "split"]
    /\ UNCHANGED <<req, storage, flashes, response, docs, loader_docs, split_docs,
                   vector_store, chroma_db, qs, rs, page, steps, written, ans, asked,
                   last_search>>

\* line 61 of loadDocument is reached by one upload after the other: both files are
\* saved, the type is valid, and `docs` holds any value
InitPipeline ==
    /\ pc = [r \in Requests |-> IF r = 1 THEN "split" ELSE "queued"]
    /\ req = [r \in Requests |-> ValidForm]
    /\ \E body \in SeqsUpTo(Questions, MaxQuestions) :
          storage = [f \in Filenames |->
                        IF f = "a.pdf" THEN CorpusFile(2) ELSE QuestionsFile(2, body)]
    /\ flashes = [r \in Requests |-> <<>>]
    /\ response = [r \in Requests |-> "pending"]
    /\ docs \in {d \in [Requests -> UNION {DocsValues(r) : r \in Requests}] :
                    \A r \in Requests : d[r] \in DocsValues(r)}
    /\ loader_docs = [r \in Requests |-> <<>>]
    /\ split_docs = [r \in Requests |-> <<>>]
    /\ vector_store = [r \in Requests |-> "unset"]
    /\ chroma_db = <<>>
    /\ qs = [r \in Requests |-> <<>>]
    /\ rs = [r \in Requests |-> <<>>]
    /\ page = [r \in Requests |-> None]
    /\ steps = [r \in Requests |-> <<"save_corpus", "save_questions", "load">>]
    /\ written = [r \in Requests |-> {"a.pdf", "b.json"}]
    /\ ans = [r \in Requests |-> <<>>]
    /\ asked = [r \in Requests |-> <<>>]
    /\ last_search = [r \in Requests |-> [q \in Questions |-> NoSearch]]
    /\ text = <<>>
    /\ chunk_size = 1
    /\ chunk_overlap = 0
    /\ chunks = None

\* loadDocument from the call of splitDocuments on
NextPipeline ==
    \E r \in Requests :
        \/ SplitDocs(r)
        \/ BuildVectorStore(r)
        \/ LoadQuestions(r)
        \/ GenResponsesCall(r)
        \/ GenResponsesIter(r)
        \/ GenResponsesRaise(r)
        \/ GenResponsesReturn(r)
        \/ Render(r)
        \/ PipelineError(r)
        \/ Respond(r)
        \/ NextUpload(r)

SpecPipeline == InitPipeline /\ [][NextPipeline]_vars

\* a text, a chunk_size and a chunk_overlap below it
InitChunk ==
    /\ pc = [r \in Requests |-> "idle"]
    /\ req = [r \in Requests |-> NoForm]
    /\ storage = [f \in Filenames |-> NoFile]
    /\ flashes = [r \in Requests |-> <<>>]
    /\ response = [r \in Requests |-> "pending"]
    /\ docs = [r \in Requests |-> None]
    /\ loader_docs = [r \in Requests |-> <<>>]
    /\ split_docs = [r \in Requests |-> <<>>]
    /\ vector_store = [r \in Requests |-> "unset"]
    /\ chroma_db = <<>>
    /\ qs = [r \in Requests |-> <<>>]
    /\ rs = [r \in Requests |-> <<>>]
    /\ page = [r \in Requests |-> None]
    /\ steps = [r \in Requests |-> <<>>]
    /\ written = [r \in Requests |-> {}]
    /\ ans = [r \in Requests |-> <<>>]
    /\ asked = [r \in Requests |-> <<>>]
    /\ last_search = [r \in Requests |-> [q \in Questions |-> NoSearch]]
    /\ text \in SeqsUpTo(Alphabet, MaxLen)
    /\ chunk_size \in 1..MaxChunkSize
    /\ chunk_overlap \in 0..(chunk_size - 1)
    /\ chunks = None

\* the text splitter is applied to the text
Chunk ==
    /\ chunks = None
    /\ chunks' = PyList(split_text(text, chunk_size, chunk_overlap))
    /\ UNCHANGED <<text, chunk_size, chunk_overlap>>
    /\ UNCHANGED handlerVars

NextChunk == Chunk

SpecChunk == InitChunk /\ [][NextChunk]_vars

-----------------------------------------------------------------------------
(* Properties *)

\* s is a prefix of t
IsPrefix(s, t) == Len(s) <= Len(t) /\ s = SubSeq(t, 1, Len(s))

\* the request carries both files
BothFiles(r) == pc[r] # "idle" /\ req[r].hasCorpus /\ req[r].hasQuestions

\* the keys of a dict
KeySet(d) == {d[i][1] : i \in 1..Len(d)}

\* the value a dict holds for a key it has
Lookup(d, k) == d[CHOOSE i \in 1..Len(d) : d[i][1] = k][2]

\* the elements of a sequence
Range(s) == {s[i] : i \in 1..Len(s)}

\* the texts of the chunks, in order, one space between consecutive texts (built
\* from the last chunk backwards)
RECURSIVE SpaceSeparated(_)
SpaceSeparated(found) ==
    IF found = <<>> THEN <<>>
    ELSE LET front == SubSeq(found, 1, Len(found) - 1)
             last == found[Len(found)].page_content
         IN  IF front = <<>> THEN last ELSE SpaceSeparated(front) \o <<" ">> \o last

\* where the text of chunk i starts in an answer built from `found`
RECURSIVE OffsetOf(_, _)
OffsetOf(found, i) ==
    IF i = 1 THEN 0
    ELSE OffsetOf(found, i - 1) + Len(found[i - 1].page_content) + 1

\* answer a is the texts of the chunks of `found` in order, with exactly one space
\* between two consecutive texts and nothing else
IsSpaceJoined(a, found) ==
    /\ found = <<>> => a = <<>>
    /\ found # <<>> =>
          /\ Len(a) = OffsetOf(found, Len(found)) + Len(found[Len(found)].page_content)
          /\ \A i \in 1..Len(found) :
                /\ SubSeq(a, OffsetOf(found, i) + 1,
                          OffsetOf(found, i) + Len(found[i].page_content))
                      = found[i].page_content
                /\ i > 1 => a[OffsetOf(found, i)] = " "

\* the texts of the chunks in order, each but the first without its first
\* `overlap` characters
RECURSIVE WithoutOverlaps(_, _)
WithoutOverlaps(cs, overlap) ==
    IF cs = <<>> THEN <<>>
    ELSE IF Len(cs) = 1 THEN cs[1].page_content
    ELSE LET last == cs[Len(cs)].page_content
         IN  WithoutOverlaps(SubSeq(cs, 1, Len(cs) - 1), overlap)
                \o SubSeq(last, overlap + 1, Len(last))

\* C1: a request with both files whose type is neither pdf nor json saves no file,
\* and ends with a redirect and a flash message
C1_InvalidTypeSavesNothing ==
    \A r \in Requests :
        (BothFiles(r) /\ req[r].type \notin {"pdf", "json", "Absent"}) =>
            /\ written[r] = {}
            /\ pc[r] = "done" => (response[r] = "redirect" /\ flashes[r] # <<>>)

C4_NoPartialSuccess ==
    \A r \in Requests :
        /\ pc[r] # "done" => page[r] = None
        /\ pc[r] = "done" =>
              \/ /\ response[r] = "rendered"
                 /\ page[r] # None
                 /\ \A q \in Range(storage[req[r].questionsName].body) :
                       \E i \in 1..Len(page[r].items) : page[r].items[i].name = q
              \/ /\ response[r] = "server_error"
                 /\ page[r] = None

\* a page with the answers of two different questions has been rendered
C4_Witness ==
    \E r \in Requests :
        /\ pc[r] = "done"
        /\ response[r] = "rendered"
        /\ Cardinality(Range(storage[req[r].questionsName].body)) = 2
        /\ Len(page[r].items) = 2

C7_ChunkerGetsLoadedDocuments ==
    \A r \in Requests :
        pc[r] = "split" => docs[r] = PyList(loader_docs[r])

\* C8: the chunks are windows of chunk_size characters whose starts are
\* chunk_size - chunk_overlap apart, the last one possibly shorter, and their
\* texts with the overlaps removed give back the text
C8_ChunksReconstructText ==
    chunks # None =>
        LET cs == chunks.items
        IN  /\ Len(cs) >= 1
            /\ \A i \in 1..Len(cs) :
                  /\ cs[i].start_index = (i - 1) * (chunk_size - chunk_overlap)
                  /\ i < Len(cs) => Len(cs[i].page_content) = chunk_size
                  /\ Len(cs[i].page_content) <= chunk_size
            /\ WithoutOverlaps(cs, chunk_overlap) = text

\* a text has been split into at least three overlapping chunks, the last one
\* shorter than chunk_size
C8_Witness ==
    /\ chunks # None
    /\ Len(chunks.items) >= 3
    /\ chunk_overlap >= 1
    /\ Len(chunks.items[Len(chunks.items)].page_content) < chunk_size

====
